---- MODULE Spec2Model ----
(***************************************************************************)
(* Footballer REST API: the footballers table (migrations), the data       *)
(* access methods of FootballerModel (Insert, Get, Update, Delete, GetAll) *)
(* and the HTTP handlers of cmd/api/footballer.go.                         *)
(*                                                                         *)
(* Four specifications share the table:                                    *)
(*   SpecDA        a client of package data calls the exported methods of  *)
(*                 FootballerModel one after the other with arbitrary      *)
(*                 arguments;                                              *)
(*   SpecValidate  a caller passes footballers to ValidateFootballer;      *)
(*   Spec          the HTTP server runs create/show/update/delete/list     *)
(*                 requests concurrently; every SQL statement is one       *)
(*                 atomic step;                                            *)
(*   SpecTimeout   as Spec, with a database that may let the 3 second      *)
(*                 timeout of a call pass.                                 *)
(* In SpecDA and Spec the database answers every statement within the      *)
(* timeout.                                                                *)
(***************************************************************************)
EXTENDS Integers, Sequences, FiniteSets, TLC

(***************************************************************************)
(* Bounds of the model.                                                    *)
(***************************************************************************)
\* values the bigserial sequence footballers_id_seq may hand out
MaxId == 3
\* highest version a row is taken to
MaxVersion == 2
\* values of the sequence handed out to create requests
MaxCreated == 1

\* time.Now().Year() / date_part('year', now())
CurrentYear == 2026

(***************************************************************************)
(* Go values.  A []string is nil or a (possibly empty) list.               *)
(***************************************************************************)
NilSlice == [isNil |-> TRUE, elems |-> <<>>]

Slice(s) == [isNil |-> FALSE, elems |-> s]

\* len() of a Go string, in bytes, for the strings the model uses
StrLen(s) ==
  CASE s = "" -> 0
    [] s = "Messi" -> 5
    [] s = "messi" -> 5
    [] s = "Leo Messi" -> 9
    [] s = "Ronaldo" -> 7
    [] s = "Miami" -> 5
    [] s = "PSG" -> 3
    [] s = "long" -> 501
    [] OTHER -> 1

\* the zero value of data.Footballer
ZeroFootballer ==
  [ID |-> 0, CreatedAt |-> 0, Name |-> "", Titles |-> 0, StartedPlayYear |-> 0,
   Year |-> 0, Club |-> "", PlayedClubs |-> 0, Position |-> NilSlice,
   Goals |-> 0, Version |-> 0]

\* a Footballer as the create handler builds it from a request body
Body(name, titles, spy, year, club, played, pos, goals) ==
  [ZeroFootballer EXCEPT !.Name = name, !.Titles = titles,
     !.StartedPlayYear = spy, !.Year = year, !.Club = club,
     !.PlayedClubs = played, !.Position = pos, !.Goals = goals]

(***************************************************************************)
(* Errors of package data; ErrDB stands for any other error of the driver. *)
(***************************************************************************)
NoErr == "nil"
ErrRecordNotFound == "record not found"
ErrEditConflict == "edit conflict"
ErrDB == "pq: error"

(***************************************************************************)
(* The footballers table.  A table is a function from the ids of its rows  *)
(* (id is the PRIMARY KEY) to the rows.  An SQL array value is NULL or a   *)
(* list.                                                                   *)
(***************************************************************************)
EmptyTable == [i \in {} |-> 0]

\* pq.Array(x).Value(): a nil slice is sent as NULL, any other as an array
PqArray(slice) == [null |-> slice.isNil, elems |-> slice.elems]

\* pq.Array(&x).Scan of a non-NULL text[] column
ScanArray(arr) == Slice(arr.elems)

\* array_length(positions, 1): NULL (here -1) for an empty array
ArrayLength(arr) == IF Len(arr.elems) = 0 THEN -1 ELSE Len(arr.elems)

\* column definitions of 000001: every column is NOT NULL
NotNullOk(row) == ~row.positions.null

\* footballers_year_check
YearCheck(row) == row.year >= 1600 /\ row.year <= CurrentYear

\* footballers_length_check; a CHECK whose expression is NULL is satisfied
LengthCheck(row) ==
  \/ ArrayLength(row.positions) = -1
  \/ ArrayLength(row.positions) >= 1 /\ ArrayLength(row.positions) <= 6

\* the row is accepted by the table's constraints
TableAccepts(row) == NotNullOk(row) /\ YearCheck(row) /\ LengthCheck(row)

\* DEFAULT 1 of column version
DefaultVersion == 1

\* the row INSERT builds: the listed columns from the arguments, the others
\* from their defaults (id from the sequence, created_at NOW(), version 1)
InsertRow(id, now, f) ==
  [id |-> id, created_at |-> now, names |-> f.Name, titles |-> f.Titles,
   startedplayyear |-> f.StartedPlayYear, year |-> f.Year, club |-> f.Club,
   playedclubs |-> f.PlayedClubs, positions |-> PqArray(f.Position),
   goals |-> f.Goals, version |-> DefaultVersion]

PutRow(table, row) ==
  [i \in DOMAIN table \cup {row.id} |-> IF i = row.id THEN row ELSE table[i]]

DropRows(table, ids) == [i \in DOMAIN table \ ids |-> table[i]]

\* FootballerModel.Insert.  nextval() is taken before the constraints are
\* checked, so a rejected INSERT uses up an id as well.
Insert(table, lastId, now, f) ==
  LET id == lastId + 1
      row == InsertRow(id, now, f)
  IN  IF TableAccepts(row)
      THEN [table |-> PutRow(table, row), lastId |-> id, err |-> NoErr,
            footballer |-> [f EXCEPT !.ID = row.id, !.CreatedAt = row.created_at,
                                     !.Version = row.version]]
      ELSE [table |-> table, lastId |-> id, err |-> ErrDB, footballer |-> f]

\* mutant of ScanRow: the destinations of titles and goals are exchanged
ScanRowExchanged(row) ==
  [ID |-> row.id, CreatedAt |-> row.created_at, Name |-> row.names,
   Titles |-> row.goals, StartedPlayYear |-> row.startedplayyear,
   Year |-> row.year, Club |-> row.club, PlayedClubs |-> row.playedclubs,
   Position |-> [isNil |-> FALSE, elems |-> row.positions.elems],
   Goals |-> row.titles, Version |-> row.version]

\* Scan of a row of the column list of Get and GetAll into a Footballer
ScanRow(row) ==
  [ID |-> row.id, CreatedAt |-> row.created_at, Name |-> row.names,
   Titles |-> row.titles, StartedPlayYear |-> row.startedplayyear,
   Year |-> row.year, Club |-> row.club, PlayedClubs |-> row.playedclubs,
   Position |-> ScanArray(row.positions), Goals |-> row.goals,
   Version |-> row.version]

\* WHERE id = $1 of Get
GetWhere(row, id) == row.id = id

\* FootballerModel.Get
Get(table, id) ==
  IF id < 1
  THEN [err |-> ErrRecordNotFound, footballer |-> ZeroFootballer]
  ELSE LET hit == {i \in DOMAIN table : GetWhere(table[i], id)}
       IN  IF hit = {}
           THEN [err |-> ErrRecordNotFound, footballer |-> ZeroFootballer]
           ELSE [err |-> NoErr,
                 footballer |-> ScanRow(table[CHOOSE i \in hit : TRUE])]

\* mutant of UpdateWhere: the version is not compared
UpdateWhereAnyVersion(row, f) == row.id = f.ID

\* WHERE id = $9 AND version = $10 of Update
UpdateWhere(row, f) == row.id = f.ID /\ row.version = f.Version

\* mutant of UpdateSet: the version is left as it is
UpdateSetSameVersion(row, f) ==
  [row EXCEPT !.names = f.Name, !.titles = f.Titles,
     !.startedplayyear = f.StartedPlayYear, !.year = f.Year, !.club = f.Club,
     !.playedclubs = f.PlayedClubs,
     !.positions = [null |-> f.Position.isNil, elems |-> f.Position.elems],
     !.goals = f.Goals]

\* SET ... , version = version + 1 of Update
UpdateSet(row, f) ==
  [row EXCEPT !.names = f.Name, !.titles = f.Titles,
     !.startedplayyear = f.StartedPlayYear, !.year = f.Year, !.club = f.Club,
     !.playedclubs = f.PlayedClubs, !.positions = PqArray(f.Position),
     !.goals = f.Goals, !.version = row.version + 1]

\* mutant of Update: no row of the id is ErrRecordNotFound
UpdateOrNotFound(table, f) ==
  LET hit == {i \in DOMAIN table : UpdateWhere(table[i], f)}
  IN  IF hit = {}
      THEN [table |-> table,
            err |-> IF f.ID \in DOMAIN table THEN ErrEditConflict
                    ELSE ErrRecordNotFound,
            footballer |-> f]
      ELSE LET row == UpdateSet(table[CHOOSE i \in hit : TRUE], f)
           IN  IF TableAccepts(row)
               THEN [table |-> PutRow(table, row), err |-> NoErr,
                     footballer |-> [f EXCEPT !.Version = row.version]]
               ELSE [table |-> table, err |-> ErrDB, footballer |-> f]

\* FootballerModel.Update.  The constraints are checked on the rows the
\* WHERE clause selects only; no selected row is sql.ErrNoRows.
Update(table, f) ==
  LET hit == {i \in DOMAIN table : UpdateWhere(table[i], f)}
  IN  IF hit = {}
      THEN [table |-> table, err |-> ErrEditConflict, footballer |-> f]
      ELSE LET row == UpdateSet(table[CHOOSE i \in hit : TRUE], f)
           IN  IF TableAccepts(row)
               THEN [table |-> PutRow(table, row), err |-> NoErr,
                     footballer |-> [f EXCEPT !.Version = row.version]]
               ELSE [table |-> table, err |-> ErrDB, footballer |-> f]

\* mutant of DeleteWhere: every row from the id on is selected
DeleteWhereFrom(row, id) == row.id >= id

\* WHERE id = $1 of Delete
DeleteWhere(row, id) == row.id = id

\* FootballerModel.Delete
Delete(table, id) ==
  IF id < 1
  THEN [table |-> table, err |-> ErrRecordNotFound]
  ELSE LET hit == {i \in DOMAIN table : DeleteWhere(table[i], id)}
       IN  IF Cardinality(hit) = 0
           THEN [table |-> table, err |-> ErrRecordNotFound]
           ELSE [table |-> DropRows(table, hit), err |-> NoErr]

(***************************************************************************)
(* data.Filters and data.Metadata (internal/data/filters.go).              *)
(***************************************************************************)
\* mutant of SortSafelist: club is a sort key as well
SortSafelistWithClub ==
  {"id", "names", "titles", "startedplayyear", "year", "goals", "club",
   "-id", "-names", "-titles", "-startedplayyear", "-year", "-goals", "-club"}

\* Filters.SortSafelist as listFootballerHandler sets it
SortSafelist ==
  {"id", "names", "titles", "startedplayyear", "year", "goals",
   "-id", "-names", "-titles", "-startedplayyear", "-year", "-goals"}

\* strings.HasPrefix(Sort, "-")
HasDashPrefix(sort) ==
  sort \in {"-id", "-names", "-titles", "-startedplayyear", "-year", "-goals"}

\* strings.TrimPrefix(Sort, "-")
TrimDashPrefix(sort) ==
  CASE sort = "-id" -> "id"
    [] sort = "-names" -> "names"
    [] sort = "-titles" -> "titles"
    [] sort = "-startedplayyear" -> "startedplayyear"
    [] sort = "-year" -> "year"
    [] sort = "-goals" -> "goals"
    [] OTHER -> sort

\* Filters.sortColumn
sortColumn(filters) == TrimDashPrefix(filters.Sort)

\* Filters.sortDirection
sortDirection(filters) == IF HasDashPrefix(filters.Sort) THEN "DESC" ELSE "ASC"

\* Filters.limit
limit(filters) == filters.PageSize

\* Filters.offset
offset(filters) == (filters.Page - 1) * filters.PageSize

\* Metadata{}
ZeroMetadata ==
  [CurrentPage |-> 0, PageSize |-> 0, FirstPage |-> 0, LastPage |-> 0,
   TotalRecords |-> 0]

\* math.Ceil(float64(a) / float64(b)) for a >= 0, b >= 1
CeilDiv(a, b) == (a + b - 1) \div b

\* calculateMetadata
calculateMetadata(totalRecords, page, pageSize) ==
  IF totalRecords = 0
  THEN ZeroMetadata
  ELSE [CurrentPage |-> page, PageSize |-> pageSize, FirstPage |-> 1,
        LastPage |-> CeilDiv(totalRecords, pageSize),
        TotalRecords |-> totalRecords]

(***************************************************************************)
(* The SELECT of GetAll.                                                   *)
(***************************************************************************)
\* the lexemes the 'simple' text search configuration finds in a text: its
\* words, lower-cased (punctuation holds no word)
Lexemes(text) ==
  CASE text = "Messi" -> {"messi"}
    [] text = "messi" -> {"messi"}
    [] text = "MESSI" -> {"messi"}
    [] text = "Leo Messi" -> {"leo", "messi"}
    [] text = "messi leo" -> {"leo", "messi"}
    [] text = "Ronaldo" -> {"ronaldo"}
    [] text = "leo ronaldo" -> {"leo", "ronaldo"}
    [] OTHER -> {}

\* to_tsvector('simple', names)
ToTsvector(text) == Lexemes(text)

\* plainto_tsquery('simple', $1): the conjunction of the lexemes of $1
PlaintoTsquery(text) == Lexemes(text)

\* tsvector @@ tsquery; a query without lexemes matches nothing
TsMatch(vector, query) == query # {} /\ query \subseteq vector

\* (to_tsvector('simple', names) @@ plainto_tsquery('simple', $1) OR $1 = '')
NameMatch(row, name) ==
  TsMatch(ToTsvector(row.names), PlaintoTsquery(name)) \/ name = ""

\* the set of the elements of an array
Elems(arr) == {arr.elems[i] : i \in 1..Len(arr.elems)}

\* mutant of PositionsMatch: && (overlap) in the place of @> (contains)
PositionsOverlap(row, arr) ==
  /\ ~arr.null
  /\ \/ {arr.elems[i] : i \in 1..Len(arr.elems)}
          \cap {row.positions.elems[i] : i \in 1..Len(row.positions.elems)} # {}
     \/ arr.elems = <<>>

\* (positions @> $2 OR $2 = '{}'); NULL for a NULL $2, which selects no row
PositionsMatch(row, arr) ==
  /\ ~arr.null
  /\ \/ Elems(arr) \subseteq Elems(row.positions)
     \/ arr.elems = <<>>

\* the WHERE clause of GetAll
GetAllWhere(row, name, arr) == NameMatch(row, name) /\ PositionsMatch(row, arr)

\* the place of a text in the order of the database's collation
Collate(text) ==
  CASE text = "" -> 0
    [] text = "Leo Messi" -> 1
    [] text = "messi" -> 2
    [] text = "Messi" -> 3
    [] text = "Ronaldo" -> 4
    [] OTHER -> 5

\* the value of the ORDER BY column of a row
SortKey(row, column) ==
  CASE column = "id" -> row.id
    [] column = "names" -> Collate(row.names)
    [] column = "titles" -> row.titles
    [] column = "startedplayyear" -> row.startedplayyear
    [] column = "year" -> row.year
    [] column = "goals" -> row.goals

\* ORDER BY <column> <direction>, id ASC: a comes before b
OrderBefore(a, b, column, direction) ==
  LET ka == SortKey(a, column)
      kb == SortKey(b, column)
  IN  \/ direction = "ASC" /\ ka < kb
      \/ direction = "DESC" /\ ka > kb
      \/ ka = kb /\ a.id < b.id

RECURSIVE OrderBy(_, _, _)
\* the rows of a set in the order of ORDER BY
OrderBy(rows, column, direction) ==
  IF rows = {}
  THEN <<>>
  ELSE LET first == CHOOSE r \in rows :
                      \A o \in rows \ {r} : OrderBefore(r, o, column, direction)
       IN  <<first>> \o OrderBy(rows \ {first}, column, direction)

\* mutant of LimitOffset: the row at the offset is returned as well
LimitOffsetFromOffset(rows, lim, off) ==
  SubSeq(rows, IF off = 0 THEN 1 ELSE off,
         IF off + lim < Len(rows) THEN off + lim ELSE Len(rows))

\* LIMIT $3 OFFSET $4
LimitOffset(rows, lim, off) ==
  SubSeq(rows, off + 1, IF off + lim < Len(rows) THEN off + lim ELSE Len(rows))

\* the result set of the query of GetAll: count(*) OVER() is the number of
\* rows the WHERE clause selects, repeated in every row of the page
GetAllQuery(table, name, arr, filters) ==
  LET selected == {table[i] : i \in {j \in DOMAIN table :
                                       GetAllWhere(table[j], name, arr)}}
      ordered == OrderBy(selected, sortColumn(filters), sortDirection(filters))
      page == LimitOffset(ordered, limit(filters), offset(filters))
  IN  [k \in 1..Len(page) |-> [count |-> Cardinality(selected), row |-> page[k]]]

\* mutant of ScanTotalRecords: the rows of the page are counted
ScanTotalRecordsOfPage(rows) == Len(rows)

\* totalRecords after the rows.Next() loop: the count of the last row
\* scanned, 0 when the result set has no row
ScanTotalRecords(rows) == IF Len(rows) = 0 THEN 0 ELSE rows[Len(rows)].count

\* mutant of GetAll: a club that is not empty selects the rows of that club
GetAllOfClub(table, name, club, position, filters) ==
  LET ofClub == {i \in DOMAIN table : club = "" \/ table[i].club = club}
      rows == GetAllQuery([i \in ofClub |-> table[i]], name, PqArray(position),
                          filters)
  IN  [err |-> NoErr,
       footballers |-> [k \in 1..Len(rows) |-> ScanRow(rows[k].row)],
       metadata |-> calculateMetadata(ScanTotalRecords(rows), filters.Page,
                                      filters.PageSize)]

\* FootballerModel.GetAll; club is not used
GetAll(table, name, club, position, filters) ==
  LET rows == GetAllQuery(table, name, PqArray(position), filters)
  IN  [err |-> NoErr,
       footballers |-> [k \in 1..Len(rows) |-> ScanRow(rows[k].row)],
       metadata |-> calculateMetadata(ScanTotalRecords(rows), filters.Page,
                                      filters.PageSize)]

(***************************************************************************)
(* The context of a call.  Every method runs its statement under           *)
(* context.WithTimeout(context.Background(), 3*time.Second).  Insert, Get, *)
(* Update, Delete and GetAll above are the methods when the database       *)
(* answers before the deadline; the definitions below are the methods      *)
(* under any context.                                                      *)
(***************************************************************************)
\* how the statement of a call ends: "answered", the database answers before
\* the deadline; "cancelled", the deadline passes and the statement has no
\* effect; "late", the deadline passes when the statement has taken effect
\* and its answer is still to come
Contexts == {"answered", "cancelled", "late"}

\* ctx.Err() after the deadline, as QueryRowContext, ExecContext and
\* QueryContext return it
DeadlineExceeded == "context deadline exceeded"

\* FootballerModel.Insert under ctx
InsertWithTimeout(ctx, table, lastId, now, f) ==
  LET r == Insert(table, lastId, now, f)
  IN  CASE ctx = "answered" -> r
        [] ctx = "late" -> [table |-> r.table, lastId |-> r.lastId,
                            err |-> DeadlineExceeded, footballer |-> f]
        [] OTHER -> [table |-> table, lastId |-> lastId,
                     err |-> DeadlineExceeded, footballer |-> f]

\* FootballerModel.Get under ctx; for an id below 1 no statement is run
GetWithTimeout(ctx, table, id) ==
  IF id < 1 \/ ctx = "answered"
  THEN Get(table, id)
  ELSE [err |-> DeadlineExceeded, footballer |-> ZeroFootballer]

\* mutant of UpdateWithTimeout: a passed deadline is taken for no row
UpdateWithTimeoutAsNoRows(ctx, table, f) ==
  LET r == Update(table, f)
  IN  CASE ctx = "answered" -> r
        [] ctx = "late" -> [table |-> r.table, err |-> ErrEditConflict,
                            footballer |-> f]
        [] OTHER -> [table |-> table, err |-> ErrEditConflict, footballer |-> f]

\* FootballerModel.Update under ctx
UpdateWithTimeout(ctx, table, f) ==
  LET r == Update(table, f)
  IN  CASE ctx = "answered" -> r
        [] ctx = "late" -> [table |-> r.table, err |-> DeadlineExceeded,
                            footballer |-> f]
        [] OTHER -> [table |-> table, err |-> DeadlineExceeded, footballer |-> f]

\* FootballerModel.Delete under ctx; for an id below 1 no statement is run
DeleteWithTimeout(ctx, table, id) ==
  LET r == Delete(table, id)
  IN  CASE id < 1 \/ ctx = "answered" -> r
        [] ctx = "late" -> [table |-> r.table, err |-> DeadlineExceeded]
        [] OTHER -> [table |-> table, err |-> DeadlineExceeded]

\* FootballerModel.GetAll under ctx
GetAllWithTimeout(ctx, table, name, club, position, filters) ==
  IF ctx = "answered"
  THEN GetAll(table, name, club, position, filters)
  ELSE [err |-> DeadlineExceeded, footballers |-> <<>>,
        metadata |-> ZeroMetadata]

(***************************************************************************)
(* validator.Validator (internal/validator): Errors is a map from key to   *)
(* message, here a function.                                               *)
(***************************************************************************)
\* validator.New()
NewValidator == [k \in {} |-> ""]

\* Validator.AddError: the first message of a key stays
AddError(v, key, message) ==
  IF key \in DOMAIN v
  THEN v
  ELSE [k \in DOMAIN v \cup {key} |-> IF k = key THEN message ELSE v[k]]

\* Validator.Check
Check(v, ok, key, message) == IF ok THEN v ELSE AddError(v, key, message)

\* Validator.Valid
Valid(v) == DOMAIN v = {}

\* validator.Unique: no value occurs twice
Unique(values) ==
  \A i, j \in 1..Len(values) : values[i] = values[j] => i = j

\* mutant of FootballerChecks: the check of duplicate positions is left out
FootballerChecksWithoutUnique(f) ==
  << [ok |-> f.Name # "", key |-> "name", message |-> "must be provided"],
     [ok |-> StrLen(f.Name) <= 500, key |-> "name",
      message |-> "must not be more than 500 bytes long"],
     [ok |-> f.StartedPlayYear # 0, key |-> "started_play_year",
      message |-> "must be provided"],
     [ok |-> f.StartedPlayYear <= CurrentYear, key |-> "started_play_year",
      message |-> "must not be in the future"],
     [ok |-> f.Year # 0, key |-> "Year", message |-> "must be provided"],
     [ok |-> f.Year <= CurrentYear, key |-> "year",
      message |-> "must not be in the future"],
     [ok |-> f.Titles >= 0, key |-> "titles",
      message |-> "must not be less than zero"],
     [ok |-> f.PlayedClubs >= 1, key |-> "played_clubs",
      message |-> "must not be less than 1"],
     [ok |-> StrLen(f.Club) <= 500, key |-> "club",
      message |-> "must not be more than 500 bytes long"],
     [ok |-> f.Goals >= 0, key |-> "goals",
      message |-> "must not be negative goals"],
     [ok |-> ~f.Position.isNil, key |-> "position",
      message |-> "must be provided"],
     [ok |-> Len(f.Position.elems) >= 1, key |-> "position",
      message |-> "must contain at least 1 position in filed"],
     [ok |-> Len(f.Position.elems) <= 6, key |-> "position",
      message |-> "must not contain more than  6 positions in filed"] >>

\* the calls of v.Check in ValidateFootballer, in the order they are written
FootballerChecks(f) ==
  << [ok |-> f.Name # "", key |-> "name", message |-> "must be provided"],
     [ok |-> StrLen(f.Name) <= 500, key |-> "name",
      message |-> "must not be more than 500 bytes long"],
     [ok |-> f.StartedPlayYear # 0, key |-> "started_play_year",
      message |-> "must be provided"],
     [ok |-> f.StartedPlayYear <= CurrentYear, key |-> "started_play_year",
      message |-> "must not be in the future"],
     [ok |-> f.Year # 0, key |-> "Year", message |-> "must be provided"],
     [ok |-> f.Year <= CurrentYear, key |-> "year",
      message |-> "must not be in the future"],
     [ok |-> f.Titles >= 0, key |-> "titles",
      message |-> "must not be less than zero"],
     [ok |-> f.PlayedClubs >= 1, key |-> "played_clubs",
      message |-> "must not be less than 1"],
     [ok |-> StrLen(f.Club) <= 500, key |-> "club",
      message |-> "must not be more than 500 bytes long"],
     [ok |-> f.Goals >= 0, key |-> "goals",
      message |-> "must not be negative goals"],
     [ok |-> ~f.Position.isNil, key |-> "position",
      message |-> "must be provided"],
     [ok |-> Len(f.Position.elems) >= 1, key |-> "position",
      message |-> "must contain at least 1 position in filed"],
     [ok |-> Len(f.Position.elems) <= 6, key |-> "position",
      message |-> "must not contain more than  6 positions in filed"],
     [ok |-> Unique(f.Position.elems), key |-> "position",
      message |-> "must not contain duplicate values"] >>

RECURSIVE RunChecks(_, _, _)
\* the validator after the checks from the n-th on
RunChecks(v, checks, n) ==
  IF n > Len(checks)
  THEN v
  ELSE RunChecks(Check(v, checks[n].ok, checks[n].key, checks[n].message),
                 checks, n + 1)

RECURSIVE RunChecksFailFast(_, _, _)
\* the validator after the checks from the n-th on, up to the first that fails
RunChecksFailFast(v, checks, n) ==
  IF n > Len(checks)
  THEN v
  ELSE IF ~checks[n].ok
  THEN AddError(v, checks[n].key, checks[n].message)
  ELSE RunChecksFailFast(v, checks, n + 1)

\* mutant of ValidateFootballer: the checks stop at the first that fails
ValidateFootballerFailFast(v, f) == RunChecksFailFast(v, FootballerChecks(f), 1)

\* data.ValidateFootballer
ValidateFootballer(v, f) == RunChecks(v, FootballerChecks(f), 1)

(***************************************************************************)
(* Arguments of the calls.                                                 *)
(***************************************************************************)
\* accepted by the validator and by the table
Messi == Body("Messi", 40, 2004, 1987, "Miami", 3, Slice(<<"RW", "CF">>), 800)
LeoMessi == Body("Leo Messi", 40, 2004, 1987, "PSG", 3, Slice(<<"CF">>), 700)
Ronaldo == Body("Ronaldo", 30, 2002, 1985, "", 5, Slice(<<"CF", "LW", "RW">>), 900)
\* accepted by the validator, rejected by footballers_year_check
Year1500 == [Messi EXCEPT !.Year = 1500]
\* rejected by the validator and by the table
Year2027 == [Messi EXCEPT !.Year = 2027]
StartedPlayYear2027 == [Messi EXCEPT !.StartedPlayYear = 2027]
NoPosition == [Ronaldo EXCEPT !.Position = NilSlice]
SevenPositions ==
  [Ronaldo EXCEPT !.Position = Slice(<<"GK", "CB", "LB", "RB", "CM", "LW", "RW">>)]

\* readings of NOW() while the server runs (0 is the reading at its start)
Times == {1}

\* ids a caller passes
IdArgs == 0..MaxId

\* footballers passed to Insert
InsertArgs == {Messi, LeoMessi, Year1500, NoPosition, SevenPositions}

\* footballers passed to Update: any id and version, new field values
UpdateArgs ==
  {[b EXCEPT !.ID = i, !.Version = v] :
     b \in {Ronaldo, Year1500, NoPosition},
     i \in IdArgs, v \in 1..MaxVersion}

PageArgs == {1, 2, 3}
PageSizeArgs == {1, 2}

\* clubs passed to GetAll
ClubArgs == {"", "PSG", "Miami"}

\* name, club, position and filters passed to GetAll; position is never nil
\* (listFootballerHandler passes the result of readCSV, []string{} by default)
GetAllArgs ==
  {[name |-> "", club |-> "", position |-> Slice(<<>>),
    filters |-> [Page |-> p, PageSize |-> ps, Sort |-> so]] :
     p \in PageArgs, ps \in PageSizeArgs, so \in SortSafelist}
  \cup
  {[name |-> n, club |-> "", position |-> Slice(pos),
    filters |-> [Page |-> p, PageSize |-> ps, Sort |-> "-goals"]] :
     n \in {"", "MESSI", "messi leo", "leo ronaldo", "-"},
     pos \in {<<>>, <<"CF">>, <<"RW", "CF">>, <<"CF", "CF">>, <<"GK">>},
     p \in {1, 2}, ps \in {1}}
  \cup
  {[name |-> n, club |-> cl, position |-> Slice(<<>>),
    filters |-> [Page |-> 1, PageSize |-> 2, Sort |-> "id"]] :
     n \in {"", "messi"}, cl \in ClubArgs \ {""}}

(***************************************************************************)
(* State.                                                                  *)
(***************************************************************************)
VARIABLES
  table,    \* the rows of footballers
  lastId,   \* last value of the sequence of column id
  clock,    \* NOW()
  updates,  \* history: per stored id, the number of successful Updates
  deleted,  \* history: the ids whose row a Delete removed
  call,     \* the last call of a method of FootballerModel and its result
  req,      \* per connection, the update request between its Get and Update
  last      \* the request that ended last, until its response is written

vars == <<table, lastId, clock, updates, deleted, call, req, last>>

\* no successful Insert precedes
NoInsert == [err |-> ErrDB, arg |-> ZeroFootballer, footballer |-> ZeroFootballer]

\* the caller is between two calls; inserted is the result of the call that
\* just returned when that was a successful Insert
NoCall == [op |-> "none", inserted |-> NoInsert]

InitDB ==
  /\ table = EmptyTable
  /\ lastId = 0
  /\ clock = 0
  /\ updates = EmptyTable
  /\ deleted = {}

\* the connections of the server
Connections == {1, 2}

\* no request is running on a connection
Idle == [pc |-> "idle"]

NoRequests == [c \in Connections |-> Idle]

\* the response of the request that ended last is written
NoRequest == [kind |-> "none"]

(***************************************************************************)
(* SpecDA: calls of the methods of FootballerModel.                        *)
(***************************************************************************)
\* the value the history variable updates takes with the result of a call
CountUpdate(counts, f, err) ==
  IF err = NoErr THEN [counts EXCEPT ![f.ID] = counts[f.ID] + 1] ELSE counts

\* (the calls of SpecDA all fall into one reading of the clock)
CallInsert(f) ==
  /\ call.op = "none"
  /\ lastId < MaxId
  /\ LET r == Insert(table, lastId, clock, f)
     IN  /\ table' = r.table
         /\ lastId' = r.lastId
         /\ updates' = IF r.err = NoErr
                       THEN [i \in DOMAIN updates \cup {r.footballer.ID} |->
                               IF i = r.footballer.ID THEN 0 ELSE updates[i]]
                       ELSE updates
         /\ call' = [op |-> "Insert", arg |-> f, err |-> r.err,
                     footballer |-> r.footballer, before |-> table]
  /\ UNCHANGED <<clock, deleted, req, last>>

CallGet(id) ==
  LET r == Get(table, id)
  IN  /\ call.op = "none"
      /\ call' = [op |-> "Get", id |-> id, err |-> r.err,
                  footballer |-> r.footballer, before |-> table,
                  inserted |-> IF call.inserted.err = NoErr
                                  /\ call.inserted.footballer.ID = id
                               THEN call.inserted
                               ELSE NoInsert]
      /\ UNCHANGED <<table, lastId, clock, updates, deleted, req, last>>

CallUpdate(f) ==
  /\ call.op = "none"
  /\ \A i \in DOMAIN table : UpdateWhere(table[i], f) => table[i].version < MaxVersion
  /\ LET r == Update(table, f)
     IN  /\ table' = r.table
         /\ updates' = CountUpdate(updates, f, r.err)
         /\ call' = [op |-> "Update", arg |-> f, err |-> r.err,
                     footballer |-> r.footballer, before |-> table]
  /\ UNCHANGED <<lastId, clock, deleted, req, last>>

CallDelete(id) ==
  LET r == Delete(table, id)
  IN  /\ call.op = "none"
      /\ table' = r.table
      /\ deleted' = IF r.err = NoErr THEN deleted \cup {id} ELSE deleted
      /\ updates' = [i \in DOMAIN r.table |-> updates[i]]
      /\ call' = [op |-> "Delete", id |-> id, err |-> r.err, before |-> table]
      /\ UNCHANGED <<lastId, clock, req, last>>

CallGetAll(a) ==
  LET r == GetAll(table, a.name, a.club, a.position, a.filters)
  IN  /\ call.op = "none"
      /\ call' = [op |-> "GetAll", arg |-> a, err |-> r.err,
                  footballers |-> r.footballers, metadata |-> r.metadata,
                  before |-> table]
      /\ UNCHANGED <<table, lastId, clock, updates, deleted, req, last>>

\* the call returns to the caller, who goes on to the next call
Return ==
  /\ call.op # "none"
  /\ call' = [op |-> "none",
              inserted |-> IF call.op = "Insert" /\ call.err = NoErr
                           THEN [err |-> NoErr, arg |-> call.arg,
                                 footballer |-> call.footballer]
                           ELSE NoInsert]
  /\ UNCHANGED <<table, lastId, clock, updates, deleted, req, last>>

InitDA == InitDB /\ call = NoCall /\ req = NoRequests /\ last = NoRequest

NextDA ==
  \/ \E f \in InsertArgs : CallInsert(f)
  \/ \E id \in IdArgs : CallGet(id)
  \/ \E f \in UpdateArgs : CallUpdate(f)
  \/ \E id \in IdArgs : CallDelete(id)
  \/ \E a \in GetAllArgs : CallGetAll(a)
  \/ Return

SpecDA == InitDA /\ [][NextDA]_vars

(***************************************************************************)
(* SpecValidate: calls of ValidateFootballer with a new Validator.         *)
(***************************************************************************)
\* footballers passed to ValidateFootballer: every field with values on both
\* sides of each of its checks
ValidateArgs ==
  {Body(name, titles, spy, year, club, played, pos, goals) :
     name \in {"", "Messi", "long"}, titles \in {-1, 40},
     spy \in {0, 2004, 2027}, year \in {0, 1500, 1987, 2027},
     club \in {"", "long"}, played \in {0, 3},
     pos \in {NilSlice, Slice(<<>>), Slice(<<"CF">>), Slice(<<"CF", "CF">>),
              Slice(<<"GK", "CB", "LB", "RB", "CM", "LW", "RW">>),
              Slice(<<"GK", "CB", "LB", "RB", "CM", "LW", "GK">>)},
     goals \in {-1, 800}}

CallValidateFootballer(f) ==
  /\ call.op = "none"
  /\ call' = [op |-> "ValidateFootballer", arg |-> f,
              errors |-> ValidateFootballer(NewValidator, f)]
  /\ UNCHANGED <<table, lastId, clock, updates, deleted, req, last>>

InitValidate == InitDB /\ call = NoCall /\ req = NoRequests /\ last = NoRequest

NextValidate ==
  \/ \E f \in ValidateArgs : CallValidateFootballer(f)
  \/ Return

SpecValidate == InitValidate /\ [][NextValidate]_vars

(***************************************************************************)
(* The handlers of cmd/api/footballer.go.  A handler that makes one call   *)
(* of FootballerModel is one step; updateFootballerHandler makes two (Get, *)
(* then Update) and is two steps, between which other requests may run.    *)
(* called lists the methods of FootballerModel a request has called, ctx   *)
(* is the context of the call the handler makes.                           *)
(***************************************************************************)
\* app.readIDParam: the id of the path, or an error when it is no number
readIDParam(path) ==
  IF path.numeric THEN [err |-> NoErr, id |-> path.id]
  ELSE [err |-> "invalid id parameter", id |-> 0]

\* mutant of createFootballerHandler: Insert is called before the validation
createFootballerHandlerInsertFirst(tbl, lid, now, in, ctx) ==
  IF in.malformed
  THEN [table |-> tbl, lastId |-> lid, resp |-> "badRequest", called |-> <<>>,
        err |-> NoErr, footballer |-> ZeroFootballer]
  ELSE LET r == InsertWithTimeout(ctx, tbl, lid, now, in.body)
       IN  IF ~Valid(ValidateFootballer(NewValidator, in.body))
           THEN [table |-> r.table, lastId |-> r.lastId,
                 resp |-> "failedValidation", called |-> <<"Insert">>,
                 err |-> r.err, footballer |-> r.footballer]
           ELSE [table |-> r.table, lastId |-> r.lastId,
                 resp |-> IF r.err # NoErr THEN "serverError" ELSE "created",
                 called |-> <<"Insert">>, err |-> r.err,
                 footballer |-> r.footballer]

\* createFootballerHandler
createFootballerHandler(tbl, lid, now, in, ctx) ==
  IF in.malformed
  THEN [table |-> tbl, lastId |-> lid, resp |-> "badRequest", called |-> <<>>,
        err |-> NoErr, footballer |-> ZeroFootballer]
  ELSE IF ~Valid(ValidateFootballer(NewValidator, in.body))
  THEN [table |-> tbl, lastId |-> lid, resp |-> "failedValidation",
        called |-> <<>>, err |-> NoErr, footballer |-> in.body]
  ELSE LET r == InsertWithTimeout(ctx, tbl, lid, now, in.body)
       IN  [table |-> r.table, lastId |-> r.lastId,
            resp |-> IF r.err # NoErr THEN "serverError" ELSE "created",
            called |-> <<"Insert">>, err |-> r.err,
            footballer |-> r.footballer]

\* showFootballerHandler
showFootballerHandler(tbl, path, ctx) ==
  LET p == readIDParam(path)
  IN  IF p.err # NoErr
      THEN [resp |-> "notFound", called |-> <<>>, err |-> p.err,
            footballer |-> ZeroFootballer]
      ELSE LET r == GetWithTimeout(ctx, tbl, p.id)
           IN  [resp |-> CASE r.err = NoErr -> "ok"
                           [] r.err = ErrRecordNotFound -> "notFound"
                           [] OTHER -> "serverError",
                called |-> <<"Get">>, err |-> r.err,
                footballer |-> r.footballer]

\* an absent field of the body of an update request (a nil pointer)
Absent == [set |-> FALSE, val |-> 0]

Supplied(x) == [set |-> TRUE, val |-> x]

\* the body of an update request without any field
EmptyPatch ==
  [malformed |-> FALSE, Name |-> Absent, Titles |-> Absent,
   StartedPlayYear |-> Absent, Year |-> Absent, Club |-> Absent,
   PlayedClubs |-> Absent, Position |-> NilSlice, Goals |-> Absent]

\* mutant of ApplyInput: a supplied number of goals is not taken over
ApplyInputWithoutGoals(f, in) ==
  [f EXCEPT
     !.Name = IF in.Name.set THEN in.Name.val ELSE @,
     !.Titles = IF in.Titles.set THEN in.Titles.val ELSE @,
     !.StartedPlayYear = IF in.StartedPlayYear.set THEN in.StartedPlayYear.val ELSE @,
     !.Year = IF in.Year.set THEN in.Year.val ELSE @,
     !.Club = IF in.Club.set THEN in.Club.val ELSE @,
     !.PlayedClubs = IF in.PlayedClubs.set THEN in.PlayedClubs.val ELSE @,
     !.Position = IF ~in.Position.isNil THEN in.Position ELSE @]

\* updateFootballerHandler: the supplied fields overwrite those read
ApplyInput(f, in) ==
  [f EXCEPT
     !.Name = IF in.Name.set THEN in.Name.val ELSE @,
     !.Titles = IF in.Titles.set THEN in.Titles.val ELSE @,
     !.StartedPlayYear = IF in.StartedPlayYear.set THEN in.StartedPlayYear.val ELSE @,
     !.Year = IF in.Year.set THEN in.Year.val ELSE @,
     !.Club = IF in.Club.set THEN in.Club.val ELSE @,
     !.PlayedClubs = IF in.PlayedClubs.set THEN in.PlayedClubs.val ELSE @,
     !.Position = IF ~in.Position.isNil THEN in.Position ELSE @,
     !.Goals = IF in.Goals.set THEN in.Goals.val ELSE @]

\* updateFootballerHandler up to its call of Update: pc is "Update" when that
\* call is next, "done" when the response is written
updateFootballerHandlerRead(tbl, path, in, ctx) ==
  LET p == readIDParam(path)
  IN  IF p.err # NoErr
      THEN [pc |-> "done", resp |-> "notFound", called |-> <<>>,
            err |-> p.err, footballer |-> ZeroFootballer]
      ELSE LET r == GetWithTimeout(ctx, tbl, p.id)
           IN  IF r.err # NoErr
               THEN [pc |-> "done",
                     resp |-> IF r.err = ErrRecordNotFound THEN "notFound"
                              ELSE "serverError",
                     called |-> <<"Get">>, err |-> r.err,
                     footballer |-> r.footballer]
               ELSE IF in.malformed
               THEN [pc |-> "done", resp |-> "badRequest", called |-> <<"Get">>,
                     err |-> NoErr, footballer |-> r.footballer]
               ELSE IF ~Valid(ValidateFootballer(NewValidator,
                                                 ApplyInput(r.footballer, in)))
               THEN [pc |-> "done", resp |-> "failedValidation",
                     called |-> <<"Get">>, err |-> NoErr,
                     footballer |-> ApplyInput(r.footballer, in)]
               ELSE [pc |-> "Update", resp |-> "", called |-> <<"Get">>,
                     err |-> NoErr, read |-> r.footballer,
                     footballer |-> ApplyInput(r.footballer, in)]

\* updateFootballerHandler from its call of Update on
updateFootballerHandlerWrite(tbl, f, ctx) ==
  LET r == UpdateWithTimeout(ctx, tbl, f)
  IN  [table |-> r.table, err |-> r.err, footballer |-> r.footballer,
       resp |-> CASE r.err = NoErr -> "ok"
                  [] r.err = ErrEditConflict -> "editConflict"
                  [] OTHER -> "serverError"]

\* deleteFootballerHandler
deleteFootballerHandler(tbl, path, ctx) ==
  LET p == readIDParam(path)
  IN  IF p.err # NoErr
      THEN [table |-> tbl, err |-> p.err, resp |-> "notFound", called |-> <<>>]
      ELSE LET r == DeleteWithTimeout(ctx, tbl, p.id)
           IN  [table |-> r.table, err |-> r.err,
                resp |-> CASE r.err = NoErr -> "ok"
                           [] r.err = ErrRecordNotFound -> "notFound"
                           [] OTHER -> "serverError",
                called |-> <<"Delete">>]

\* app.readString: the value of the key, or the default when it is empty
readString(value, default) == IF value = "" THEN default ELSE value

\* app.readCSV: the comma separated values of the key, or the default
readCSV(param, default) == IF param.present THEN Slice(param.values) ELSE default

\* app.readInt: the integer of the key, or the default; a value that is no
\* integer is an error of the key
readInt(v, param, key, default) ==
  CASE param.kind = "absent" -> [v |-> v, val |-> default]
    [] param.kind = "int" -> [v |-> v, val |-> param.val]
    [] OTHER -> [v |-> AddError(v, key, "must be an integer value"),
                 val |-> default]

\* data.ValidateFilters
ValidateFilters(v, filters) ==
  LET v1 == Check(v, filters.Page > 0, "page", "must be greater than zero")
      v2 == Check(v1, filters.Page <= 10000000, "page",
                  "must be a maximum of 10 million")
      v3 == Check(v2, filters.PageSize > 0, "page_size",
                  "must be greater than zero")
      v4 == Check(v3, filters.PageSize <= 100, "page_size",
                  "must be a maximum of 100")
  IN  Check(v4, filters.Sort \in filters.SortSafelist, "sort",
            "invalid sort value")

\* the filters listFootballerHandler reads from the query string
ReadFilters(q) ==
  LET page == readInt(NewValidator, q.page, "page", 1)
      size == readInt(page.v, q.page_size, "page_size", 20)
  IN  [v |-> size.v,
       filters |-> [Page |-> page.val, PageSize |-> size.val,
                    Sort |-> readString(q.sort, "id"),
                    SortSafelist |-> SortSafelist]]

\* listFootballerHandler
listFootballerHandler(tbl, q, ctx) ==
  LET in == ReadFilters(q)
  IN  IF ~Valid(ValidateFilters(in.v, in.filters))
      THEN [resp |-> "failedValidation", called |-> <<>>, err |-> NoErr,
            footballers |-> <<>>, metadata |-> ZeroMetadata]
      ELSE LET r == GetAllWithTimeout(ctx, tbl, readString(q.names, ""),
                                      readString(q.club, ""),
                                      readCSV(q.positions, Slice(<<>>)),
                                      in.filters)
           IN  [resp |-> IF r.err # NoErr THEN "serverError" ELSE "ok",
                called |-> <<"GetAll">>, err |-> r.err,
                footballers |-> r.footballers, metadata |-> r.metadata]

(***************************************************************************)
(* Spec: the HTTP server.  Every connection runs one request after the     *)
(* other; the requests of different connections run concurrently.          *)
(***************************************************************************)
\* the path parameter :id
PathArgs ==
  {[numeric |-> FALSE, id |-> 0]} \cup
  {[numeric |-> TRUE, id |-> i] : i \in 0..MaxCreated}

\* bodies of create requests
CreateInputs ==
  {[malformed |-> FALSE, body |-> b] :
     b \in {Messi, Year1500, Year2027, StartedPlayYear2027, NoPosition,
            SevenPositions}}
  \cup {[malformed |-> TRUE, body |-> ZeroFootballer]}

\* bodies of update requests
UpdateInputs ==
  {[EmptyPatch EXCEPT !.Goals = Supplied(801), !.Position = Slice(<<"CF">>)],
   [EmptyPatch EXCEPT !.Year = Supplied(1500)],
   [EmptyPatch EXCEPT !.Position = Slice(<<"CF", "CF">>)],
   [EmptyPatch EXCEPT !.Position = Slice(<<>>)],
   [EmptyPatch EXCEPT !.malformed = TRUE]}

NoParam == [kind |-> "absent", val |-> 0]

IntParam(n) == [kind |-> "int", val |-> n]

\* the query string without any key
EmptyQuery ==
  [names |-> "", club |-> "", positions |-> [present |-> FALSE, values |-> <<>>],
   page |-> NoParam, page_size |-> NoParam, sort |-> ""]

\* query strings of list requests
ListInputs ==
  {EmptyQuery,
   [EmptyQuery EXCEPT !.page = IntParam(2), !.page_size = IntParam(1),
                      !.sort = "-goals"],
   [EmptyQuery EXCEPT !.names = "MESSI",
                      !.positions = [present |-> TRUE, values |-> <<"CF">>]],
   [EmptyQuery EXCEPT !.sort = "club"],
   [EmptyQuery EXCEPT !.page = IntParam(0)],
   [EmptyQuery EXCEPT !.page_size = [kind |-> "text", val |-> 0]]}

\* a request may end when the response of the one before is written
Ready == last.kind = "none"

CreateRequest(in, ctx) ==
  /\ Ready
  /\ \E now \in {t \in Times : t >= clock} :
       LET h == createFootballerHandler(table, lastId, now, in, ctx)
       IN  /\ h.called # <<>> => lastId < MaxCreated
           /\ table' = h.table
           /\ lastId' = h.lastId
           /\ clock' = IF h.called = <<>> THEN clock ELSE now
           /\ updates' = [i \in DOMAIN h.table |->
                            IF i \in DOMAIN table THEN updates[i] ELSE 0]
           /\ last' = [kind |-> "create", in |-> in, resp |-> h.resp,
                       called |-> h.called, footballer |-> h.footballer,
                       ctx |-> ctx, err |-> h.err]
  /\ UNCHANGED <<deleted, call, req>>

ShowRequest(path, ctx) ==
  /\ Ready
  /\ LET h == showFootballerHandler(table, path, ctx)
     IN  last' = [kind |-> "show", path |-> path, resp |-> h.resp,
                  called |-> h.called, footballer |-> h.footballer,
                  ctx |-> ctx, err |-> h.err]
  /\ UNCHANGED <<table, lastId, clock, updates, deleted, call, req>>

DeleteRequest(path, ctx) ==
  /\ Ready
  /\ LET h == deleteFootballerHandler(table, path, ctx)
     IN  /\ table' = h.table
         /\ deleted' = deleted \cup (DOMAIN table \ DOMAIN h.table)
         /\ updates' = [i \in DOMAIN h.table |-> updates[i]]
         /\ last' = [kind |-> "delete", path |-> path, resp |-> h.resp,
                     called |-> h.called, ctx |-> ctx, err |-> h.err]
  /\ UNCHANGED <<lastId, clock, call, req>>

ListRequest(q, ctx) ==
  /\ Ready
  /\ LET h == listFootballerHandler(table, q, ctx)
     IN  last' = [kind |-> "list", in |-> q, resp |-> h.resp,
                  called |-> h.called, footballers |-> h.footballers,
                  metadata |-> h.metadata, ctx |-> ctx, err |-> h.err]
  /\ UNCHANGED <<table, lastId, clock, updates, deleted, call, req>>

\* the first step of an update request on connection c: up to the validation
UpdateRequestRead(c, path, in, ctx) ==
  /\ Ready
  /\ req[c].pc = "idle"
  /\ LET h == updateFootballerHandlerRead(table, path, in, ctx)
     IN  IF h.pc = "done"
         THEN /\ last' = [kind |-> "update", path |-> path, in |-> in,
                          resp |-> h.resp, called |-> h.called,
                          footballer |-> h.footballer, ctx |-> ctx,
                          err |-> h.err]
              /\ req' = req
         ELSE /\ req' = [req EXCEPT ![c] =
                           [pc |-> h.pc, path |-> path, in |-> in,
                            called |-> h.called, read |-> h.read,
                            footballer |-> h.footballer, rivals |-> {}]]
              /\ last' = last
  /\ UNCHANGED <<table, lastId, clock, updates, deleted, call>>

\* the second step of an update request on connection c: the call of Update.
\* History: rivals of a request between its Get and its Update are the
\* outcomes of the Update calls other requests made meanwhile with the id and
\* the version this request read.  updates counts the UPDATE statements that
\* took effect, also those whose answer came after the deadline.
UpdateRequestWrite(c, ctx) ==
  /\ Ready
  /\ req[c].pc = "Update"
  /\ \A i \in DOMAIN table :
       UpdateWhere(table[i], req[c].footballer) => table[i].version < MaxVersion
  /\ LET h == updateFootballerHandlerWrite(table, req[c].footballer, ctx)
     IN  /\ table' = h.table
         /\ updates' = IF h.table # table
                       THEN CountUpdate(updates, req[c].footballer, NoErr)
                       ELSE updates
         /\ last' = [kind |-> "update", path |-> req[c].path, in |-> req[c].in,
                     resp |-> h.resp, called |-> Append(req[c].called, "Update"),
                     footballer |-> h.footballer, read |-> req[c].read,
                     arg |-> req[c].footballer, err |-> h.err, ctx |-> ctx,
                     before |-> table, after |-> h.table,
                     rivals |-> req[c].rivals]
         /\ req' = [o \in Connections |->
                      IF o = c THEN Idle
                      ELSE IF /\ req[o].pc = "Update"
                              /\ req[o].footballer.ID = req[c].footballer.ID
                              /\ req[o].footballer.Version = req[c].footballer.Version
                      THEN [req[o] EXCEPT !.rivals =
                              @ \cup {[resp |-> h.resp, arg |-> req[c].footballer,
                                       after |-> h.table]}]
                      ELSE req[o]]
  /\ UNCHANGED <<lastId, clock, deleted, call>>

\* the response of the request that ended last is written
Respond ==
  /\ last.kind # "none"
  /\ last' = NoRequest
  /\ UNCHANGED <<table, lastId, clock, updates, deleted, call, req>>

Init == InitDB /\ call = NoCall /\ req = NoRequests /\ last = NoRequest

\* the database answers every statement before the deadline
Next ==
  \/ \E in \in CreateInputs : CreateRequest(in, "answered")
  \/ \E path \in PathArgs : ShowRequest(path, "answered")
  \/ \E path \in PathArgs : DeleteRequest(path, "answered")
  \/ \E q \in ListInputs : ListRequest(q, "answered")
  \/ \E c \in Connections, path \in PathArgs, in \in UpdateInputs :
       UpdateRequestRead(c, path, in, "answered")
  \/ \E c \in Connections : UpdateRequestWrite(c, "answered")
  \/ Respond

Spec == Init /\ [][Next]_vars

(***************************************************************************)
(* SpecTimeout: the HTTP server with a database that may let the deadline  *)
(* of any call pass.                                                       *)
(***************************************************************************)
\* bodies and query strings of the requests
TimeoutCreateInputs == {[malformed |-> FALSE, body |-> Messi]}

TimeoutUpdateInputs == {[EmptyPatch EXCEPT !.Goals = Supplied(801)]}

TimeoutListInputs == {EmptyQuery}

NextTimeout ==
  \/ \E in \in TimeoutCreateInputs, ctx \in Contexts : CreateRequest(in, ctx)
  \/ \E path \in PathArgs, ctx \in Contexts : ShowRequest(path, ctx)
  \/ \E path \in PathArgs, ctx \in Contexts : DeleteRequest(path, ctx)
  \/ \E q \in TimeoutListInputs, ctx \in Contexts : ListRequest(q, ctx)
  \/ \E c \in Connections, path \in PathArgs, in \in TimeoutUpdateInputs,
        ctx \in Contexts :
       UpdateRequestRead(c, path, in, ctx)
  \/ \E c \in Connections, ctx \in Contexts : UpdateRequestWrite(c, ctx)
  \/ Respond

SpecTimeout == Init /\ [][NextTimeout]_vars

(***************************************************************************)
(* Properties of the methods of FootballerModel, under SpecDA.             *)
(***************************************************************************)
\* the last call was Update for a stored id with another version than stored
StaleUpdate ==
  /\ call.op = "Update"
  /\ call.arg.ID \in DOMAIN call.before
  /\ call.before[call.arg.ID].version # call.arg.Version

\* C1: an Update whose version differs from the version stored for its id
\* returns ErrEditConflict and leaves the table as it was.
C1_StaleUpdateIsEditConflict ==
  StaleUpdate => call.err = ErrEditConflict /\ table = call.before

\* a stale Update of a row, with values the table would otherwise accept, where
\* the supplied version is the one the row had before an earlier Update
C1_Witness ==
  /\ StaleUpdate
  /\ call.before[call.arg.ID].version = call.arg.Version + 1
  /\ TableAccepts(UpdateSet(call.before[call.arg.ID], call.arg))

\* C4: the version of a stored row is 1 plus the number of successful Updates
\* of its id (so 1 when it is inserted); no step lowers it, and only a
\* successful Update of the id changes it.
C4_VersionCountsUpdates ==
  /\ [](\A i \in DOMAIN table : table[i].version = 1 + updates[i])
  /\ [][\A i \in DOMAIN table' :
          IF i \in DOMAIN table
          THEN /\ table'[i].version >= table[i].version
               /\ table'[i].version # table[i].version =>
                    call'.op = "Update" /\ call'.err = NoErr /\ call'.arg.ID = i
          ELSE table'[i].version = 1]_vars

\* a row that was updated while another row still has its first version
C4_Witness ==
  \E i, j \in DOMAIN table :
    table[i].version = 2 /\ updates[i] = 1 /\ table[j].version = 1

\* the last call was Get of the id the successful Insert just before assigned
GetAfterInsert == call.op = "Get" /\ call.inserted.err = NoErr

\* C5: Get of the id a successful Insert assigned, right after that Insert,
\* returns the inserted field values, that id and version 1; and the id
\* Insert assigns is the id of no row stored before.
C5_InsertThenGet ==
  /\ GetAfterInsert =>
       /\ call.err = NoErr
       /\ call.footballer.Name = call.inserted.arg.Name
       /\ call.footballer.Titles = call.inserted.arg.Titles
       /\ call.footballer.StartedPlayYear = call.inserted.arg.StartedPlayYear
       /\ call.footballer.Year = call.inserted.arg.Year
       /\ call.footballer.Club = call.inserted.arg.Club
       /\ call.footballer.PlayedClubs = call.inserted.arg.PlayedClubs
       /\ call.footballer.Position = call.inserted.arg.Position
       /\ call.footballer.Goals = call.inserted.arg.Goals
       /\ call.footballer.ID = call.inserted.footballer.ID
       /\ call.footballer.Version = 1
  /\ call.op = "Insert" /\ call.err = NoErr =>
       /\ call.footballer.ID \notin DOMAIN call.before
       /\ call.footballer.ID \notin deleted

\* Get after the Insert of a second row, after an earlier row was deleted
C5_Witness ==
  /\ GetAfterInsert
  /\ DOMAIN call.before # {call.id}
  /\ deleted # {}

\* C6: Delete of an id below 1 or without a row returns ErrRecordNotFound and
\* leaves the table as it was; Delete of a stored id removes that row whatever
\* its version and leaves the other rows as they were; a deleted id is never
\* stored again and every later Get of it returns ErrRecordNotFound.
C6_Delete ==
  /\ call.op = "Delete" /\ (call.id < 1 \/ call.id \notin DOMAIN call.before) =>
       call.err = ErrRecordNotFound /\ table = call.before
  /\ call.op = "Delete" /\ call.id >= 1 /\ call.id \in DOMAIN call.before =>
       /\ call.err = NoErr
       /\ DOMAIN table = DOMAIN call.before \ {call.id}
       /\ \A i \in DOMAIN table : table[i] = call.before[i]
  /\ deleted \cap DOMAIN table = {}
  /\ call.op = "Get" /\ call.id \in deleted => call.err = ErrRecordNotFound

\* Get of an id whose row was deleted, while another row is stored
C6_Witness ==
  /\ call.op = "Get"
  /\ call.id \in deleted
  /\ table # EmptyTable

(***************************************************************************)
(* Properties of GetAll, under SpecDA.                                     *)
(***************************************************************************)
\* the ids of the rows stored at the last call that pass its name filter and
\* hold every requested position
Matching ==
  {i \in DOMAIN call.before :
     /\ NameMatch(call.before[i], call.arg.name)
     /\ \A k \in 1..Len(call.arg.position.elems) :
          \E m \in 1..Len(call.before[i].positions.elems) :
            call.before[i].positions.elems[m] = call.arg.position.elems[k]}

\* the metadata reports n records on pages of the requested size
ReportsTotal(metadata, n) ==
  /\ metadata.TotalRecords = n
  /\ metadata.LastPage * call.arg.filters.PageSize >= n
  /\ (metadata.LastPage - 1) * call.arg.filters.PageSize < n

\* the requested page starts after the last matching row
PageBeyondEnd ==
  (call.arg.filters.Page - 1) * call.arg.filters.PageSize >= Cardinality(Matching)

\* C8 as stated: the metadata is the zero value when no row matches, and
\* reports N records and last page ceil(N/P) when N > 0 rows match, whichever
\* page was requested.
C8_MetadataWhicheverPage ==
  call.op = "GetAll" =>
    IF Cardinality(Matching) = 0
    THEN call.metadata = ZeroMetadata
    ELSE ReportsTotal(call.metadata, Cardinality(Matching))

\* C8 amended: the metadata is the zero value when no row matches or the
\* requested page starts after the last matching row (the page is empty), and
\* reports N records and last page ceil(N/P) otherwise.
C8_MetadataOfNonEmptyPage ==
  call.op = "GetAll" =>
    IF PageBeyondEnd
    THEN call.metadata = ZeroMetadata /\ call.footballers = <<>>
    ELSE ReportsTotal(call.metadata, Cardinality(Matching))

\* the second of two pages of three matching rows, two rows a page
C8_Witness ==
  /\ call.op = "GetAll"
  /\ Cardinality(Matching) = 3
  /\ call.arg.filters.PageSize = 2
  /\ call.arg.filters.Page = 2
  /\ call.metadata.LastPage = 2

\* the last call was GetAll without name and position filter
GetAllUnfiltered ==
  call.op = "GetAll" /\ call.arg.name = "" /\ call.arg.position.elems = <<>>

\* a comes before b in the requested order, ties broken by ascending id
Precedes(a, b, sort) ==
  LET ka == SortKey(a, sortColumn([Sort |-> sort]))
      kb == SortKey(b, sortColumn([Sort |-> sort]))
  IN  IF ka = kb
      THEN a.id < b.id
      ELSE IF sortDirection([Sort |-> sort]) = "DESC" THEN ka > kb ELSE ka < kb

\* the place, from 1, of a stored row in the requested order of all rows
Place(i) ==
  1 + Cardinality({j \in DOMAIN call.before :
                     Precedes(call.before[j], call.before[i], call.arg.filters.Sort)})

\* the ids on page k of the last call's query, in the order returned
PageIds(k) ==
  LET r == GetAll(call.before, call.arg.name, call.arg.club, call.arg.position,
                  [call.arg.filters EXCEPT !.Page = k])
  IN  [m \in 1..Len(r.footballers) |-> r.footballers[m].ID]

\* C9: without name and position filter, page k of size P holds exactly the
\* rows at places (k-1)*P+1 .. k*P of the requested order with ties broken by
\* ascending id, in that order; every stored row is on exactly one of the
\* pages 1..ceil(N/P), once.
C9_PagesOfTheOrder ==
  GetAllUnfiltered =>
    LET P == call.arg.filters.PageSize
        k == call.arg.filters.Page
        N == Cardinality(DOMAIN call.before)
        pages == [n \in 1..CeilDiv(N, P) |-> PageIds(n)]
    IN  /\ \A m \in 1..Len(call.footballers) :
             /\ call.footballers[m].ID \in DOMAIN call.before
             /\ Place(call.footballers[m].ID) = (k - 1) * P + m
             /\ call.footballers[m] = ScanRow(call.before[call.footballers[m].ID])
        /\ \A i \in DOMAIN call.before :
             Place(i) > (k - 1) * P /\ Place(i) <= k * P =>
               \E m \in 1..Len(call.footballers) : call.footballers[m].ID = i
        /\ \A i \in DOMAIN call.before :
             Cardinality({km \in (1..CeilDiv(N, P)) \X (1..P) :
                            /\ km[2] <= Len(pages[km[1]])
                            /\ pages[km[1]][km[2]] = i}) = 1

\* a page after the first of three rows, two of which tie in the sort column
C9_Witness ==
  /\ GetAllUnfiltered
  /\ call.arg.filters.Sort = "-titles"
  /\ call.arg.filters.Page = 2
  /\ Len(call.footballers) >= 1
  /\ Cardinality(DOMAIN call.before) = 3
  /\ \E i, j \in DOMAIN call.before :
       i # j /\ call.before[i].titles = call.before[j].titles

\* C10: every footballer GetAll returns holds all requested positions; the
\* pages of the query together hold every stored row that passes the name
\* filter and holds all requested positions (every row that passes the name
\* filter when no position is requested).
C10_PositionsContained ==
  call.op = "GetAll" =>
    LET matching == Matching
        pages == [k \in 1..Cardinality(matching) |-> PageIds(k)]
    IN  /\ \A m \in 1..Len(call.footballers) :
             \A k \in 1..Len(call.arg.position.elems) :
               \E n \in 1..Len(call.footballers[m].Position.elems) :
                 call.footballers[m].Position.elems[n] = call.arg.position.elems[k]
        /\ \A i \in matching :
             \E k \in 1..Cardinality(matching) :
               \E m \in 1..Len(pages[k]) : pages[k][m] = i
        /\ call.arg.position.elems = <<>> =>
             matching = {i \in DOMAIN call.before :
                           NameMatch(call.before[i], call.arg.name)}
        /\ ~PageBeyondEnd => call.metadata.TotalRecords = Cardinality(matching)

\* two positions requested in another order than a row stores them: a row
\* holding both is returned, a row holding only one of them is not
C10_Witness ==
  /\ call.op = "GetAll"
  /\ call.arg.position.elems = <<"RW", "CF">>
  /\ Len(call.footballers) >= 1
  /\ \E i \in DOMAIN call.before :
       /\ i \notin Matching
       /\ NameMatch(call.before[i], call.arg.name)
       /\ call.before[i].positions.elems = <<"CF">>

(***************************************************************************)
(* Properties of the handlers, under Spec.                                 *)
(***************************************************************************)
\* the request that ended last is an update request that called Update
UpdateCalled == last.kind = "update" /\ Len(last.called) = 2

\* the row of the table holds the field values of the footballer
HoldsValues(row, f) ==
  /\ row.names = f.Name
  /\ row.titles = f.Titles
  /\ row.startedplayyear = f.StartedPlayYear
  /\ row.year = f.Year
  /\ row.club = f.Club
  /\ row.playedclubs = f.PlayedClubs
  /\ ~f.Position.isNil
  /\ row.positions.elems = f.Position.elems
  /\ row.goals = f.Goals

\* right after the Update call with footballer f answered resp, the table tbl
\* holds under f's id the values of f with the version after the one f read
Won(resp, f, tbl) ==
  /\ resp = "ok"
  /\ f.ID \in DOMAIN tbl
  /\ HoldsValues(tbl[f.ID], f)
  /\ tbl[f.ID].version = f.Version + 1

\* C2: of two update requests that run concurrently and read the same version
\* of the same footballer, at most one Update succeeds and the other is
\* answered edit-conflict; right after the winner's Update the row holds the
\* winner's values with the version read plus 1.
C2_OneWinnerOtherConflict ==
  UpdateCalled =>
    \A o \in last.rivals :
      /\ ~(last.resp = "ok" /\ o.resp = "ok")
      /\ last.resp = "ok" =>
           o.resp = "editConflict" /\ Won(last.resp, last.arg, last.after)
      /\ o.resp = "ok" =>
           last.resp = "editConflict" /\ Won(o.resp, o.arg, o.after)

\* C3: an Update call with the id of a stored row and that row's version
\* succeeds, stores the supplied values with the version plus 1, and sets the
\* caller's version to the stored one.
C3_CurrentVersionSucceeds ==
  /\ UpdateCalled
  /\ last.arg.ID \in DOMAIN last.before
  /\ last.before[last.arg.ID].version = last.arg.Version
  => /\ Won(last.resp, last.arg, last.after)
     /\ last.footballer.Version = last.after[last.arg.ID].version

\* C7 as stated: a request answered with a validation error has called no
\* method of FootballerModel.
C7_NoCallBeforeValidation ==
  last.kind # "none" /\ last.resp = "failedValidation" => last.called = <<>>

\* C7 amended: a create or list request answered with a validation error
\* has called no method of FootballerModel; an update request answered with a
\* validation error has called Get, once, and no other method; in both cases
\* the step that ends the request leaves the table and the id sequence as
\* they were.
C7_OnlyGetBeforeValidation ==
  /\ [](last.kind # "none" /\ last.resp = "failedValidation" =>
          \/ last.kind \in {"create", "list"} /\ last.called = <<>>
          \/ last.kind = "update" /\ last.called = <<"Get">>)
  /\ [][last'.kind # "none" /\ last'.resp = "failedValidation" =>
          table' = table /\ lastId' = lastId]_vars

\* an update request of a stored footballer answered with a validation error
C7_Witness ==
  /\ last.kind = "update"
  /\ last.resp = "failedValidation"
  /\ last.path.id \in DOMAIN table

(***************************************************************************)
(* Properties of the validation, under Spec.                               *)
(***************************************************************************)
\* a footballer the validation has to refuse: fewer than 1 or more than 6
\* positions, a position twice, or a year after the current one
Refused(f) ==
  \/ Len(f.Position.elems) < 1
  \/ Len(f.Position.elems) > 6
  \/ Cardinality({f.Position.elems[k] : k \in 1..Len(f.Position.elems)})
       < Len(f.Position.elems)
  \/ f.StartedPlayYear > CurrentYear
  \/ f.Year > CurrentYear

\* the update request that ended last read a row and decoded its body, so it
\* has a candidate footballer
UpdateValidated ==
  /\ last.kind = "update"
  /\ last.path.numeric
  /\ \/ UpdateCalled
     \/ last.path.id \in DOMAIN table /\ ~last.in.malformed

\* that candidate: the argument of Update, or, when Update was not called,
\* the stored row (which no step has changed since) with the supplied fields
UpdateCandidate ==
  IF UpdateCalled
  THEN last.arg
  ELSE ApplyInput(ScanRow(table[last.path.id]), last.in)

\* C11: a create or update request whose candidate footballer has a position
\* list of fewer than 1 or more than 6 entries or with a duplicate, or a
\* started_play_year or year after the current year, is answered with a
\* validation error without calling Insert or Update; no such footballer is
\* an argument of Update or a row of the table.
C11_RefusedNeverWritten ==
  /\ last.kind = "create" /\ ~last.in.malformed /\ Refused(last.in.body) =>
       last.resp = "failedValidation" /\ last.called = <<>>
  /\ UpdateValidated /\ Refused(UpdateCandidate) =>
       last.resp = "failedValidation" /\ last.called = <<"Get">>
  /\ \A c \in Connections :
       req[c].pc = "Update" => ~Refused(req[c].footballer)
  /\ \A i \in DOMAIN table : ~Refused(ScanRow(table[i]))

\* an update request that supplies a position twice for a stored footballer
\* whose own fields are valid
C11_Witness ==
  /\ UpdateValidated
  /\ ~UpdateCalled
  /\ ~Refused(ScanRow(table[last.path.id]))
  /\ Refused(UpdateCandidate)
  /\ last.in.Position.elems = <<"CF", "CF">>

\* C12: a footballer that passes ValidateFootballer satisfies both CHECK
\* constraints of the table, so the Insert or Update a handler calls with it
\* is not rejected and the request is not answered with a server error.
C12_ValidatedPassesChecks ==
  /\ /\ last.kind = "create"
     /\ ~last.in.malformed
     /\ Valid(ValidateFootballer(NewValidator, last.in.body))
     => /\ YearCheck(InsertRow(0, 0, last.in.body))
        /\ LengthCheck(InsertRow(0, 0, last.in.body))
        /\ last.resp = "created"
  /\ /\ UpdateCalled
     /\ Valid(ValidateFootballer(NewValidator, last.arg))
     => /\ YearCheck(InsertRow(0, 0, last.arg))
        /\ LengthCheck(InsertRow(0, 0, last.arg))
        /\ last.resp # "serverError"

(***************************************************************************)
(* Properties of the list requests, under Spec.                            *)
(***************************************************************************)
\* the columns of footballers a list may be ordered by
SortColumns == {"id", "names", "titles", "startedplayyear", "year", "goals"}

\* the sort keys that are a column with '-' before it, with that column
Descending ==
  {<<"-id", "id">>, <<"-names", "names">>, <<"-titles", "titles">>,
   <<"-startedplayyear", "startedplayyear">>, <<"-year", "year">>,
   <<"-goals", "goals">>}

\* ORDER BY <column> <direction> is what the sort key asks for: the key is a
\* sortable column and the order ascending, or the key is '-' and a sortable
\* column and the order descending
OrderByOfKey(key, column, direction) ==
  /\ column \in SortColumns
  /\ \/ key = column /\ direction = "ASC"
     \/ <<key, column>> \in Descending /\ direction = "DESC"

\* the Filters of the list request that ended last
ListFilters == ReadFilters(last.in).filters

\* C13: a list request calls GetAll only with a sort key of the handler's
\* allow-list, and the column and direction GetAll puts into ORDER BY are then
\* one of id, names, titles, startedplayyear, year, goals and DESC exactly for
\* a key with a leading '-'; that holds for every key of the allow-list; a
\* request with another sort key is answered with a validation error without
\* a call of GetAll.
C13_OrderByFromSafelist ==
  last.kind = "list" =>
    /\ last.called = <<"GetAll">> =>
         /\ ListFilters.Sort \in ListFilters.SortSafelist
         /\ OrderByOfKey(ListFilters.Sort, sortColumn(ListFilters),
                         sortDirection(ListFilters))
    /\ \A key \in ListFilters.SortSafelist :
         OrderByOfKey(key, sortColumn([ListFilters EXCEPT !.Sort = key]),
                      sortDirection([ListFilters EXCEPT !.Sort = key]))
    /\ ~(\E column \in SortColumns :
           \/ ListFilters.Sort = column
           \/ <<ListFilters.Sort, column>> \in Descending) =>
         last.resp = "failedValidation" /\ last.called = <<>>

\* a list of a stored footballer in descending order of goals
C13_Witness ==
  /\ last.kind = "list"
  /\ last.called = <<"GetAll">>
  /\ ListFilters.Sort = "-goals"
  /\ sortDirection(ListFilters) = "DESC"
  /\ table # EmptyTable

(***************************************************************************)
(* Properties of the update requests, under Spec.                          *)
(***************************************************************************)
\* the value a field has after an update: the supplied one, else the one read
Merged(field, read) == IF field.set THEN field.val ELSE read

\* C14: after an update request answered ok, the stored row has for every
\* field the body supplied the supplied value and for every other field the
\* value the request's Get read; its id and created_at are those read, which
\* are those of the row before the Update.
C14_OnlySuppliedFieldsChange ==
  UpdateCalled /\ last.resp = "ok" =>
    /\ last.path.id \in DOMAIN last.before
    /\ last.path.id \in DOMAIN last.after
    /\ LET row == last.after[last.path.id]
           old == last.before[last.path.id]
       IN  /\ row.names = Merged(last.in.Name, last.read.Name)
           /\ row.titles = Merged(last.in.Titles, last.read.Titles)
           /\ row.startedplayyear =
                Merged(last.in.StartedPlayYear, last.read.StartedPlayYear)
           /\ row.year = Merged(last.in.Year, last.read.Year)
           /\ row.club = Merged(last.in.Club, last.read.Club)
           /\ row.playedclubs = Merged(last.in.PlayedClubs, last.read.PlayedClubs)
           /\ row.positions.elems = IF last.in.Position.isNil
                                    THEN last.read.Position.elems
                                    ELSE last.in.Position.elems
           /\ ~row.positions.null
           /\ row.goals = Merged(last.in.Goals, last.read.Goals)
           /\ row.id = last.read.ID
           /\ row.id = old.id
           /\ row.created_at = last.read.CreatedAt
           /\ row.created_at = old.created_at

\* an update of the goals and the positions of a footballer, answered ok: the
\* row has other goals and positions than were read, and the name read
C14_Witness ==
  /\ UpdateCalled
  /\ last.resp = "ok"
  /\ last.in.Goals.set
  /\ ~last.in.Name.set
  /\ ~last.in.Position.isNil
  /\ last.after[last.path.id].goals # last.read.Goals
  /\ last.after[last.path.id].positions.elems # last.read.Position.elems
  /\ last.after[last.path.id].names = last.read.Name

(***************************************************************************)
(* Properties of ValidateFootballer, under SpecValidate.                   *)
(***************************************************************************)
\* the checks of the last call that failed, by their place
FailedChecks ==
  {n \in 1..Len(FootballerChecks(call.arg)) : ~FootballerChecks(call.arg)[n].ok}

\* the first check of the last call that failed for the key
FirstFailed(key) ==
  CHOOSE n \in FailedChecks :
    /\ FootballerChecks(call.arg)[n].key = key
    /\ \A m \in FailedChecks :
         FootballerChecks(call.arg)[m].key = key => n <= m

\* C15: the error map ValidateFootballer leaves in a new Validator has
\* exactly the keys of the checks that failed, whichever failed before, and
\* under each key the message of the first check that failed for it in the
\* order they are written; a nil position list gives the one position
\* message "must be provided".
C15_AllErrorsFirstPerKey ==
  call.op = "ValidateFootballer" =>
    /\ DOMAIN call.errors =
         {FootballerChecks(call.arg)[n].key : n \in FailedChecks}
    /\ \A key \in DOMAIN call.errors :
         call.errors[key] = FootballerChecks(call.arg)[FirstFailed(key)].message
    /\ call.arg.Position.isNil =>
         /\ "position" \in DOMAIN call.errors
         /\ call.errors["position"] = "must be provided"
    /\ call.arg.Name = "" /\ call.arg.Goals < 0 =>
         /\ {"name", "goals"} \subseteq DOMAIN call.errors
         /\ call.errors["name"] = "must be provided"
         /\ call.errors["goals"] = "must not be negative goals"

\* a footballer without name, with a year in the future and a nil position
\* list: three keys, position with the message of the first of its two
\* failed checks
C15_Witness ==
  /\ call.op = "ValidateFootballer"
  /\ call.arg.Name = ""
  /\ call.arg.Year > CurrentYear
  /\ call.arg.Position.isNil
  /\ DOMAIN call.errors = {"name", "year", "position"}
  /\ call.errors["position"] = "must be provided"

(***************************************************************************)
(* Properties of the timeouts, under SpecTimeout.                          *)
(***************************************************************************)
\* the request that ended last ran a statement whose deadline passed: the
\* context of its last call was not answered in time (Get and Delete run no
\* statement for an id below 1)
DeadlinePassed ==
  /\ last.kind # "none"
  /\ last.called # <<>>
  /\ last.ctx # "answered"
  /\ last.called \in {<<"Get">>, <<"Delete">>} => last.path.id >= 1

\* C16: when the deadline of the Insert, Get, Update, Delete or GetAll call of
\* a request passes, the call returns an error other than ErrRecordNotFound
\* and ErrEditConflict, the request ends with the server error response, and
\* the request has made that call once (an update request its Get once
\* before its Update).
C16_TimeoutIsServerError ==
  DeadlinePassed =>
    /\ last.err \notin {NoErr, ErrRecordNotFound, ErrEditConflict}
    /\ last.resp = "serverError"
    /\ last.called =
         CASE last.kind = "create" -> <<"Insert">>
           [] last.kind = "show" -> <<"Get">>
           [] last.kind = "delete" -> <<"Delete">>
           [] last.kind = "list" -> <<"GetAll">>
           [] last.kind = "update" ->
                IF Len(last.called) = 1 THEN <<"Get">> ELSE <<"Get", "Update">>

\* an update request whose Update took effect after the deadline
C16_Witness ==
  /\ DeadlinePassed
  /\ last.kind = "update"
  /\ Len(last.called) = 2
  /\ last.ctx = "late"
  /\ last.after # last.before
  /\ last.resp = "serverError"

(***************************************************************************)
(* Properties of an update whose row is gone, under Spec.                  *)
(***************************************************************************)
\* the update request that ended last called Update when no row had its id
UpdateOfMissingRow == UpdateCalled /\ last.arg.ID \notin DOMAIN last.before

\* C17: Update with an id that no stored row has returns ErrEditConflict, not
\* ErrRecordNotFound, and leaves the table as it was, without a row of that
\* id; the update request is answered with the edit conflict response.  The
\* same holds for Update with any other id without a row.
C17_MissingRowIsEditConflict ==
  UpdateOfMissingRow =>
    /\ last.err = ErrEditConflict
    /\ last.after = last.before
    /\ table = last.before
    /\ last.arg.ID \notin DOMAIN table
    /\ last.resp = "editConflict"
    /\ \A i \in IdArgs \ DOMAIN table :
         /\ Update(table, [last.arg EXCEPT !.ID = i]).err = ErrEditConflict
         /\ Update(table, [last.arg EXCEPT !.ID = i]).table = table

\* an update request whose row a delete request removed between its Get and
\* its Update
C17_Witness ==
  /\ UpdateOfMissingRow
  /\ last.arg.ID \in deleted
  /\ last.read.ID = last.arg.ID
  /\ last.resp = "editConflict"

(***************************************************************************)
(* Properties of the club argument of GetAll, under SpecDA.                *)
(***************************************************************************)
\* C18: on the table of the last GetAll call, the call with the same name,
\* positions and filters and any other club returns the same footballers in
\* the same order, the same metadata and the same error.
C18_ClubHasNoEffect ==
  call.op = "GetAll" =>
    \A club \in ClubArgs :
      LET other == GetAll(call.before, call.arg.name, club, call.arg.position,
                          call.arg.filters)
      IN  /\ other.footballers = call.footballers
          /\ other.metadata = call.metadata
          /\ other.err = call.err

\* a call for the club PSG that returns the footballer of another club next to
\* the one of PSG
C18_Witness ==
  /\ call.op = "GetAll"
  /\ call.arg.club = "PSG"
  /\ \E m, n \in 1..Len(call.footballers) :
       /\ call.footballers[m].Club = "PSG"
       /\ call.footballers[n].Club = "Miami"

====
